---- MODULE Spec2Model ----
(***************************************************************************)
(* EFS registry / AX inventory reconciliation (Het.py, main1.py, main2.py). *)
(*                                                                         *)
(* The repository holds two drafts of the same program: Het.py (recursive  *)
(* inventory walk, lower-casing normalizer) and main1.py (flat inventory   *)
(* loop, domain-alias normalizer; main2.py repeats main1.py's functions).  *)
(* The variable `variant` selects the draft an execution runs.             *)
(*                                                                         *)
(* Python strings are modelled as sequences of one-character strings, so   *)
(* that strip, lower, re.sub and str.replace are computed character by     *)
(* character.                                                              *)
(***************************************************************************)
EXTENDS Integers, Sequences, FiniteSets, TLC

VARIABLES
    variant,          \* "Het" or "main1": which draft runs
    \* --- normalize_cell applied to a string, twice
    npc, cell, once, twice,
    \* --- parse_inventory
    ipc, all_groups, gi, stack, seen_groups, processed_hosts, ret,
    inventory_data,   \* parse_inventory's result; compare_cells' second argument
    \* --- registry records: get_efs_server_output / load_efs_unique_servers
    epc, lines, efs_servers, ei, servers,
    \* --- compare_cells
    cpc, efsservers_data, report,
    \* --- the control-group checks of validate_inventory_with_efs
    bpc, controlgroup_a1, controlgroup_b1, servertype_dev, servertype_prod,
    efs_servers1, mismatches_servergroup, group_counts, data_center_pairs,
    assigned_servers, mismatches

vars == <<variant, npc, cell, once, twice,
          ipc, all_groups, gi, stack, seen_groups, processed_hosts, ret,
          inventory_data, epc, lines, efs_servers, ei, servers,
          cpc, efsservers_data, report,
          bpc, controlgroup_a1, controlgroup_b1, servertype_dev, servertype_prod,
          efs_servers1, mismatches_servergroup, group_counts, data_center_pairs,
          assigned_servers, mismatches>>

normVars == <<npc, cell, once, twice>>
invVars  == <<ipc, all_groups, gi, stack, seen_groups, processed_hosts, ret>>
efsVars  == <<epc, lines, efs_servers, ei, servers>>
cmpVars  == <<cpc, efsservers_data, report>>
balVars  == <<bpc, controlgroup_a1, controlgroup_b1, servertype_dev, servertype_prod,
              efs_servers1, mismatches_servergroup, group_counts, data_center_pairs,
              assigned_servers, mismatches>>

Variants == {"Het", "main1"}

(***************************************************************************)
(* Bounds of the model.                                                    *)
(***************************************************************************)
MaxPieces  == 4    \* a test string is a concatenation of at most MaxPieces pieces
MaxLines   == 3    \* lines of the registry listing read by load_efs_unique_servers
MaxRecords == 2    \* lines of the registry listing read by parse_efsservers
MaxDepth   == 6    \* call-stack frames available to the recursive walk

(***************************************************************************)
(* Strings: a Python str is a sequence of one-character strings.           *)
(***************************************************************************)
\* str.isspace / the regular expression class \s, on the characters used here
IsSpace(c) == c \in {" ", "\t", "\n"}

\* str.lower() on one character
LowerChar(c) ==
    CASE c = "A" -> "a" [] c = "B" -> "b" [] c = "C" -> "c" [] c = "L" -> "l" [] c = "M" -> "m"
      [] c = "O" -> "o" [] c = "R" -> "r" [] c = "S" -> "s" [] c = "V" -> "v"
      [] c = "X" -> "x" [] OTHER -> c

\* str.lower()
Lower(s) == [i \in 1..Len(s) |-> LowerChar(s[i])]

RECURSIVE LStrip(_)
LStrip(s) == IF s # <<>> /\ IsSpace(Head(s)) THEN LStrip(Tail(s)) ELSE s

RECURSIVE RStrip(_)
RStrip(s) ==
    IF s # <<>> /\ IsSpace(s[Len(s)]) THEN RStrip(SubSeq(s, 1, Len(s) - 1)) ELSE s

\* str.strip()
Strip(s) == RStrip(LStrip(s))

\* re.sub(r'\s+', '', s): every whitespace character is removed
RemoveSpaces(s) == SelectSeq(s, LAMBDA c : ~IsSpace(c))

\* a mutant of CollapseDots: str.replace('..', '.'), one pass over
\* non-overlapping pairs, which leaves '..' behind for a run of four dots
RECURSIVE CollapseDotPairs(_)
CollapseDotPairs(s) ==
    IF Len(s) < 2 THEN s
    ELSE IF s[1] = "." /\ s[2] = "."
         THEN <<".">> \o CollapseDotPairs(SubSeq(s, 3, Len(s)))
         ELSE <<s[1]>> \o CollapseDotPairs(Tail(s))

\* re.sub(r'\.\.+', '.', s): every maximal run of two or more dots becomes one dot
RECURSIVE CollapseDots(_)
CollapseDots(s) ==
    IF Len(s) < 2 THEN s
    ELSE IF s[1] = "." /\ s[2] = "." THEN CollapseDots(Tail(s))
         ELSE <<s[1]>> \o CollapseDots(Tail(s))

\* the first character after position i that is not whitespace ("" if none)
RECURSIVE NextNonSpace(_, _)
NextNonSpace(s, i) ==
    IF i >= Len(s) THEN ""
    ELSE IF IsSpace(s[i + 1]) THEN NextNonSpace(s, i + 1) ELSE s[i + 1]

\* the last character before position i that is not whitespace ("" if none)
RECURSIVE PrevNonSpace(_, _)
PrevNonSpace(s, i) ==
    IF i <= 1 THEN ""
    ELSE IF IsSpace(s[i - 1]) THEN PrevNonSpace(s, i - 1) ELSE s[i - 1]

RECURSIVE DropSpacesAtDots(_, _)
DropSpacesAtDots(s, i) ==
    IF i > Len(s) THEN <<>>
    ELSE IF IsSpace(s[i]) /\ (NextNonSpace(s, i) = "." \/ PrevNonSpace(s, i) = ".")
         THEN DropSpacesAtDots(s, i + 1)
         ELSE <<s[i]>> \o DropSpacesAtDots(s, i + 1)

\* re.sub(r'\s*\.\s*', '.', s): the whitespace runs that touch a dot are removed
FixDotSpaces(s) == DropSpacesAtDots(s, 1)

\* str.replace(old, new): left to right, non-overlapping occurrences
RECURSIVE Replace(_, _, _)
Replace(s, old, new) ==
    IF Len(s) < Len(old) THEN s
    ELSE IF SubSeq(s, 1, Len(old)) = old
         THEN new \o Replace(SubSeq(s, Len(old) + 1, Len(s)), old, new)
         ELSE <<s[1]>> \o Replace(Tail(s), old, new)

\* whether old occurs in s
Contains(s, old) ==
    \E i \in 1..(Len(s) - Len(old) + 1) : SubSeq(s, i, i + Len(old) - 1) = old

LegacySuffix   == <<".", "m", "1", ".", "c", "o", "m">>   \* ".m1.com"
StandardSuffix == <<".", "m", "l", ".", "c", "o", "m">>   \* ".ml.com"

(***************************************************************************)
(* normalize_cell, the two drafts.                                         *)
(***************************************************************************)
Het_normalize_cell(c) == FixDotSpaces(CollapseDots(RemoveSpaces(Lower(Strip(c)))))

main1_normalize_cell(c) == Replace(RemoveSpaces(Strip(c)), LegacySuffix, StandardSuffix)

normalize_cell(v, c) == IF v = "Het" THEN Het_normalize_cell(c) ELSE main1_normalize_cell(c)

(***************************************************************************)
(* Idle values of the variables a specification does not use.              *)
(***************************************************************************)
NormIdle == npc = "idle" /\ cell = <<>> /\ once = <<>> /\ twice = <<>>

InvIdle ==
    /\ ipc = "idle" /\ all_groups = <<>> /\ gi = 0 /\ stack = <<>>
    /\ seen_groups = {} /\ processed_hosts = {} /\ ret = <<>>

EfsIdle == epc = "idle" /\ lines = <<>> /\ efs_servers = <<>> /\ ei = 0 /\ servers = <<>>

CmpIdle == cpc = "idle" /\ efsservers_data = <<>> /\ report = <<>>

BalIdle ==
    /\ bpc = "idle" /\ controlgroup_a1 = {} /\ controlgroup_b1 = {}
    /\ servertype_dev = {} /\ servertype_prod = {} /\ efs_servers1 = <<>>
    /\ mismatches_servergroup = {} /\ group_counts = <<>> /\ data_center_pairs = <<>>
    /\ assigned_servers = {} /\ mismatches = <<>>

(***************************************************************************)
(* SpecNorm: normalize_cell applied to a string, then to its own result.   *)
(***************************************************************************)
Pieces ==
    { <<" ">>, <<".">>, <<"A">>, <<"c">>, <<".", "m">>, <<"1">>, <<".", "c", "o", "m">> }

\* the concatenations of at most n pieces
RECURSIVE Concats(_)
Concats(n) ==
    IF n = 0 THEN { <<>> }
    ELSE LET P == Concats(n - 1) IN P \cup { p \o q : p \in P, q \in Pieces }

InitNorm ==
    /\ variant \in Variants
    /\ cell \in Concats(MaxPieces)
    /\ npc = "start" /\ once = <<>> /\ twice = <<>>
    /\ InvIdle /\ inventory_data = <<>> /\ EfsIdle /\ CmpIdle /\ BalIdle

NormalizeOnce ==
    /\ npc = "start"
    /\ once' = normalize_cell(variant, cell)
    /\ npc' = "once"
    /\ UNCHANGED <<variant, cell, twice, invVars, inventory_data, efsVars, cmpVars, balVars>>

NormalizeTwice ==
    /\ npc = "once"
    /\ twice' = normalize_cell(variant, once)
    /\ npc' = "twice"
    /\ UNCHANGED <<variant, cell, once, invVars, inventory_data, efsVars, cmpVars, balVars>>

NextNorm == NormalizeOnce \/ NormalizeTwice

SpecNorm == InitNorm /\ [][NextNorm]_vars

\* C5: normalize_cell is idempotent, in the Het.py draft and in the main1.py
\* draft: normalizing an already normalized string gives the same string.
C5_Idempotent == npc = "twice" => twice = once

\* C5's case: a string with upper case, whitespace, a dot run or the legacy
\* suffix, which normalization changed, has been normalized twice.
C5_Witness ==
    /\ npc = "twice"
    /\ once # cell
    /\ \/ variant = "main1" /\ Contains(RemoveSpaces(cell), LegacySuffix)
       \/ variant = "Het" /\ Contains(cell, <<".", ".", ".">>) /\ Contains(cell, <<"A">>)

\* C7 (first half): the result of normalize_cell never contains ".m1.com".
C7_NoLegacySuffix == npc # "start" => ~Contains(once, LegacySuffix)

(***************************************************************************)
(* Python dicts are functions; {} is the function with the empty domain.   *)
(***************************************************************************)
EmptyDict == <<>>

\* dict.update(d): the keys of d overwrite those of m
DictUpdate(m, d) ==
    [k \in (DOMAIN m) \cup (DOMAIN d) |-> IF k \in DOMAIN d THEN d[k] ELSE m[k]]

\* for k, v in d.items(): m.setdefault(k, set()).update(v)
DictMerge(m, d) ==
    [k \in (DOMAIN m) \cup (DOMAIN d) |->
        (IF k \in DOMAIN m THEN m[k] ELSE {}) \cup (IF k \in DOMAIN d THEN d[k] ELSE {})]

(***************************************************************************)
(* The inventory tree: inventory['all']['children'], a dict from group     *)
(* name to group data, in the order of the YAML file.  all_groups is the   *)
(* sequence of its items.  A group's `hosts` and `children` keys may be    *)
(* absent; `hosts` may hold something that is no dict; a host's attributes *)
(* may be no dict or lack the `cells` key; `children` is a dict or a list. *)
(***************************************************************************)
S1 == <<"s", "1">>
S2 == <<"s", "2">>
CellLower == <<"a">>          \* "a"
CellRaw   == <<"A", " ">>     \* "A ": "a" in another raw spelling
CellOther == <<"b">>          \* "b"

NotADict    == [isdict |-> FALSE, hascells |-> FALSE, cells |-> {}]
NoCellsKey  == [isdict |-> TRUE,  hascells |-> FALSE, cells |-> {}]
WithCells(cs) == [isdict |-> TRUE, hascells |-> TRUE, cells |-> cs]

HostsOptions ==
    { [kind |-> "absent", items |-> EmptyDict],
      [kind |-> "notdict", items |-> EmptyDict],
      [kind |-> "dict", items |-> EmptyDict],
      [kind |-> "dict", items |-> (S2 :> WithCells({CellLower}))],
      [kind |-> "dict", items |-> (S1 :> WithCells({CellLower}) @@ S2 :> WithCells({CellOther}))] }
    \cup { [kind |-> "dict", items |-> (S1 :> info)] :
             info \in { NotADict, NoCellsKey, WithCells({CellLower}), WithCells({CellRaw}),
                        WithCells({CellOther}), WithCells({CellLower, CellOther}) } }

ChildrenOptions ==
    { [kind |-> "absent", names |-> <<>>],
      [kind |-> "list", names |-> <<"g2">>] }
    \cup { [kind |-> "dict", names |-> ns] :
             ns \in { <<"g1">>, <<"g2">>, <<"g3">>, <<"g1", "g2">>, <<"g2", "g1">>, <<"g3", "g1">> } }

GroupData == [hosts : HostsOptions, children : ChildrenOptions]

Trees ==
    { <<[name |-> "g1", data |-> d]>> : d \in GroupData }
    \cup { <<[name |-> "g1", data |-> d1], [name |-> "g2", data |-> d2]>> :
             d1 \in GroupData, d2 \in GroupData }

GroupNamesOf(groups) == { groups[i].name : i \in 1..Len(groups) }

\* all_groups.get(group_name, {})
GroupGet(groups, group_name) ==
    IF group_name \in GroupNamesOf(groups)
    THEN (CHOOSE i \in 1..Len(groups) : groups[i].name = group_name)
    ELSE 0

group_data_of(groups, group_name) ==
    IF GroupGet(groups, group_name) = 0
    THEN [hosts |-> [kind |-> "absent", items |-> EmptyDict],
          children |-> [kind |-> "absent", names |-> <<>>]]
    ELSE groups[GroupGet(groups, group_name)].data

(***************************************************************************)
(* Het.py parse_inventory: a recursive walk, extract_hosts, from every     *)
(* top-level group.                                                        *)
(***************************************************************************)
\* a mutant of AlreadySeen: the guard against cycles is missing
NeverSeen(group_name, seen) == FALSE

\* if group_name in seen_groups: return {}
AlreadySeen(group_name, seen) == group_name \in seen

\* the hosts a group lists itself, with their normalized cells
Het_OwnHosts(gd) ==
    IF gd.hosts.kind = "dict"
    THEN LET listed == { s \in DOMAIN gd.hosts.items :
                           gd.hosts.items[s].isdict /\ gd.hosts.items[s].hascells }
         IN [s \in listed |-> { Het_normalize_cell(c) : c \in gd.hosts.items[s].cells }]
    ELSE EmptyDict

\* the child groups the walk recurses into
Het_Children(gd) == IF gd.children.kind = "dict" THEN gd.children.names ELSE <<>>

Frame(groups, group_name) ==
    [group |-> group_name,
     hosts |-> Het_OwnHosts(group_data_of(groups, group_name)),
     todo  |-> Het_Children(group_data_of(groups, group_name))]

\* for group in all_groups: extract_hosts(group), with a fresh seen_groups
Het_TopCall ==
    /\ variant = "Het" /\ ipc = "top" /\ stack = <<>>
    /\ gi <= Len(all_groups)
    /\ IF AlreadySeen(all_groups[gi].name, {})
       THEN /\ gi' = gi + 1
            /\ UNCHANGED <<stack, seen_groups, ipc>>
       ELSE /\ seen_groups' = {all_groups[gi].name}
            /\ stack' = <<Frame(all_groups, all_groups[gi].name)>>
            /\ UNCHANGED <<gi, ipc>>
    /\ UNCHANGED <<variant, all_groups, processed_hosts, ret, inventory_data,
                   normVars, efsVars, cmpVars, balVars>>

\* child_hosts = extract_hosts(child_group, seen_groups): the call
Het_ChildCall ==
    /\ variant = "Het" /\ ipc = "top" /\ stack # <<>>
    /\ stack[Len(stack)].todo # <<>>
    /\ LET top   == stack[Len(stack)]
           child == Head(top.todo)
           rest  == [stack EXCEPT ![Len(stack)].todo = Tail(top.todo)]
       IN IF AlreadySeen(child, seen_groups)
          THEN \* the call returns {} at once; merging {} changes nothing
               /\ stack' = rest
               /\ UNCHANGED <<seen_groups, ipc>>
          ELSE IF Len(stack) >= MaxDepth
          THEN \* no frame left: RecursionError
               /\ ipc' = "error"
               /\ UNCHANGED <<stack, seen_groups>>
          ELSE /\ seen_groups' = seen_groups \cup {child}
               /\ stack' = Append(rest, Frame(all_groups, child))
               /\ UNCHANGED ipc
    /\ UNCHANGED <<variant, all_groups, gi, processed_hosts, ret, inventory_data,
                   normVars, efsVars, cmpVars, balVars>>

\* return hosts: into the caller's hosts (setdefault/update), or, from the
\* outermost call, into inventory_data (dict.update)
Het_Return ==
    /\ variant = "Het" /\ ipc = "top" /\ stack # <<>>
    /\ stack[Len(stack)].todo = <<>>
    /\ LET top == stack[Len(stack)]
           below == SubSeq(stack, 1, Len(stack) - 1)
       IN IF below = <<>>
          THEN /\ inventory_data' = DictUpdate(inventory_data, top.hosts)
               /\ gi' = gi + 1
               /\ stack' = <<>>
               /\ ret' = top.hosts
          ELSE /\ stack' = [below EXCEPT ![Len(below)].hosts = DictMerge(@, top.hosts)]
               /\ ret' = top.hosts
               /\ UNCHANGED <<inventory_data, gi>>
    /\ UNCHANGED <<variant, all_groups, ipc, seen_groups, processed_hosts,
                   normVars, efsVars, cmpVars, balVars>>

(***************************************************************************)
(* main1.py parse_inventory: one pass over the top-level groups; the       *)
(* children loop does nothing.                                             *)
(***************************************************************************)
main1_OwnHosts(gd) ==
    IF gd.hosts.kind = "dict"
    THEN LET listed == { s \in DOMAIN gd.hosts.items : gd.hosts.items[s].isdict }
         IN [s \in listed |-> { main1_normalize_cell(c) : c \in gd.hosts.items[s].cells }]
    ELSE EmptyDict

\* if server not in processed_hosts: inventory_data[server] = cells
main1_Group ==
    /\ variant = "main1" /\ ipc = "top"
    /\ gi <= Len(all_groups)
    /\ LET own == main1_OwnHosts(all_groups[gi].data)
           new == [s \in (DOMAIN own) \ processed_hosts |-> own[s]]
       IN /\ inventory_data' = DictUpdate(inventory_data, new)
          /\ processed_hosts' = processed_hosts \cup DOMAIN own
    /\ gi' = gi + 1
    /\ UNCHANGED <<variant, all_groups, ipc, stack, seen_groups, ret,
                   normVars, efsVars, cmpVars, balVars>>

\* return inventory_data
ParseInventoryReturn ==
    /\ ipc = "top" /\ stack = <<>>
    /\ gi > Len(all_groups)
    /\ ipc' = "done"
    /\ UNCHANGED <<variant, all_groups, gi, stack, seen_groups, processed_hosts, ret,
                   inventory_data, normVars, efsVars, cmpVars, balVars>>

InitInv ==
    /\ variant \in Variants
    /\ all_groups \in Trees
    /\ ipc = "top" /\ gi = 1 /\ stack = <<>> /\ seen_groups = {}
    /\ processed_hosts = {} /\ ret = EmptyDict
    /\ inventory_data = EmptyDict
    /\ NormIdle /\ EfsIdle /\ CmpIdle /\ BalIdle

NextInv == Het_TopCall \/ Het_ChildCall \/ Het_Return \/ main1_Group \/ ParseInventoryReturn

\* the program is sequential and runs without interruption: a step that is
\* possible is taken
SpecInv == InitInv /\ [][NextInv]_vars /\ WF_vars(NextInv)

\* the groups of the tree that list server s with a cell list
ListingGroups(groups, s) ==
    { i \in 1..Len(groups) :
        /\ groups[i].data.hosts.kind = "dict"
        /\ s \in DOMAIN groups[i].data.hosts.items
        /\ groups[i].data.hosts.items[s].isdict
        /\ groups[i].data.hosts.items[s].hascells }

ListedServers(groups) == { s \in {S1, S2} : ListingGroups(groups, s) # {} }

\* the union of the normalized cells of every group listing s
UnionOfCells(v, groups, s) ==
    UNION { { normalize_cell(v, c) : c \in groups[i].data.hosts.items[s].cells } :
              i \in ListingGroups(groups, s) }

\* C1: the mapping parse_inventory returns holds every listed server with the
\* union of the normalized cells of all the groups that list it.
C1_UnionOfGroups ==
    ipc = "done" =>
        \A s \in ListedServers(all_groups) :
            /\ s \in DOMAIN inventory_data
            /\ inventory_data[s] = UnionOfCells(variant, all_groups, s)

\* whether the children of the tree form a cycle (a group reaches itself)
HasCycle(groups) ==
    LET kids(g) == LET c == group_data_of(groups, g).children
                   IN IF c.kind = "dict" THEN { c.names[i] : i \in 1..Len(c.names) } ELSE {}
    IN \/ \E g \in GroupNamesOf(groups) : g \in kids(g)
       \/ \E g, h \in GroupNamesOf(groups) : g # h /\ h \in kids(g) /\ g \in kids(h)

\* C2: parse_inventory is total: from every tree, cyclic ones and ones whose
\* groups lack the hosts or children key included, the walk finishes and
\* returns, and no error is raised on the way.
C2_Total == <>(ipc = "done") /\ [](ipc # "error")

\* C2's case: the walk of a tree with a cycle among the children, one of
\* whose groups has no hosts key, has returned.
C2_Witness ==
    /\ ipc = "done" /\ variant = "Het"
    /\ HasCycle(all_groups)
    /\ \E i \in 1..Len(all_groups) : all_groups[i].data.hosts.kind = "absent"
    /\ inventory_data # EmptyDict

(***************************************************************************)
(* The registry listing.  `lines` holds, for every line of the command's   *)
(* output, the fields line.strip().split(',') gives.                       *)
(***************************************************************************)
SrvA      == <<"s", "r", "v", "a">>          \* "srva"
SrvAUpper == <<"S", "r", "v", "A">>          \* "SrvA"
SrvB      == <<"S", "r", "v", "B">>          \* "SrvB"
Dev       == <<"d", "e", "v">>
Prod      == <<"p", "r", "o", "d">>
Cell1     == <<"c", "1">>
Cell2     == <<"c", "2">>

\* the sequences over S of length at most n
RECURSIVE SeqsUpTo(_, _)
SeqsUpTo(S, n) ==
    IF n = 0 THEN { <<>> }
    ELSE LET P == SeqsUpTo(S, n - 1) IN P \cup { Append(p, x) : p \in P, x \in S }

\* get_efs_server_output: the lines with at least three fields
get_efs_server_output(ls) == SelectSeq(ls, LAMBDA parts : Len(parts) >= 3)

(***************************************************************************)
(* load_efs_unique_servers (main1.py, main2.py).                           *)
(***************************************************************************)
\* a mutant of StoreServer: the first record of a server is kept
StoreFirstSeen(m, server_name, pair) ==
    IF server_name \in DOMAIN m THEN m ELSE DictUpdate(m, server_name :> pair)

\* servers[server_name] = (cell_name, host_type)
StoreServer(m, server_name, pair) == DictUpdate(m, server_name :> pair)

EfsLines ==
    { <<n, c, r>> : n \in {SrvA, SrvB}, c \in {Cell1, Cell2}, r \in {Dev, Prod} }
    \cup { <<SrvA, Cell1>>, <<SrvA, Cell2, Dev, <<"x">> >> }

InitEfs ==
    /\ variant = "main1"
    /\ lines \in SeqsUpTo(EfsLines, MaxLines)
    /\ epc = "start" /\ efs_servers = <<>> /\ ei = 1 /\ servers = EmptyDict
    /\ NormIdle /\ InvIdle /\ inventory_data = EmptyDict /\ CmpIdle /\ BalIdle

\* efs_servers = get_efs_server_output()
GetEfsServerOutput ==
    /\ epc = "start"
    /\ efs_servers' = get_efs_server_output(lines)
    /\ epc' = "loop"
    /\ UNCHANGED <<variant, lines, ei, servers, normVars, invVars, inventory_data, cmpVars, balVars>>

\* one iteration of `for parts in efs_servers`
LoadUniqueStep ==
    /\ epc = "loop" /\ ei <= Len(efs_servers)
    /\ LET parts == efs_servers[ei]
       IN IF Len(parts) < 3
          THEN /\ ei' = ei + 1
               /\ UNCHANGED <<servers, epc>>
          ELSE IF Len(parts) # 3
          THEN \* server_name, cell_name, host_type = parts: ValueError
               /\ epc' = "error"
               /\ UNCHANGED <<servers, ei>>
          ELSE /\ servers' = StoreServer(servers, parts[1], <<parts[2], parts[3]>>)
               /\ ei' = ei + 1
               /\ UNCHANGED epc
    /\ UNCHANGED <<variant, lines, efs_servers, normVars, invVars, inventory_data, cmpVars, balVars>>

\* return servers
LoadUniqueReturn ==
    /\ epc = "loop" /\ ei > Len(efs_servers)
    /\ epc' = "done"
    /\ UNCHANGED <<variant, lines, efs_servers, ei, servers,
                   normVars, invVars, inventory_data, cmpVars, balVars>>

NextEfs == GetEfsServerOutput \/ LoadUniqueStep \/ LoadUniqueReturn

SpecEfs == InitEfs /\ [][NextEfs]_vars

\* the positions of the three-field records of server n
RecordsOf(ls, n) == { i \in 1..Len(ls) : Len(ls[i]) = 3 /\ ls[i][1] = n }

Min(S) == CHOOSE x \in S : \A y \in S : x <= y
Max(S) == CHOOSE x \in S : \A y \in S : x >= y

\* C3 as stated: load_efs_unique_servers keeps, for every server, the pair
\* of the server's earliest record (first-seen wins).
C3_FirstSeenWins ==
    epc = "done" =>
        \A n \in DOMAIN servers :
            servers[n] = <<lines[Min(RecordsOf(lines, n))][2], lines[Min(RecordsOf(lines, n))][3]>>

\* C3 as amended: when load_efs_unique_servers returns, it holds exactly one
\* pair for every server with a three-field record, and that pair is the one
\* of the server's latest record (last-seen wins).
C3_LastSeenWins ==
    epc = "done" =>
        /\ DOMAIN servers = { n \in {SrvA, SrvB} : RecordsOf(lines, n) # {} }
        /\ \A n \in DOMAIN servers :
             servers[n] = <<lines[Max(RecordsOf(lines, n))][2], lines[Max(RecordsOf(lines, n))][3]>>

\* C3's case: a server with several records that disagree has been loaded.
C3_Witness ==
    /\ epc = "done"
    /\ \E i, j \in RecordsOf(lines, SrvA) :
         i < j /\ <<lines[i][2], lines[i][3]>> # <<lines[j][2], lines[j][3]>>

(***************************************************************************)
(* determine_group_from_pattern (main1.py, main2.py; Het.py calls it and   *)
(* does not define it).  Every pattern is a literal prefix followed by     *)
(* `.*`, so re.match succeeds exactly on the names that start with the     *)
(* prefix.                                                                 *)
(***************************************************************************)
PATTERN_TO_GROUP ==
    << [prefix |-> <<"l", "a", "a", "u", "4", "2", "e", "f", "s">>, group |-> "l_aja_ausyb01sr1"],
       [prefix |-> <<"l", "a", "a", "u", "u", "1", "e", "f", "s">>, group |-> "l_aja_ausy02sr1"],
       [prefix |-> <<"l", "c", "h", "h", "k", "0", "1", "e", "f", "s">>, group |-> "l_aja_cnhhk01"],
       [prefix |-> <<"l", "c", "h", "h", "k", "0", "2", "e", "f", "s">>, group |-> "l_aja_cnhhk02"],
       [prefix |-> <<"l", "c", "h", "h", "k", "0", "7", "e", "f", "s">>, group |-> "l_aja_inhche07sr1"],
       [prefix |-> <<"l", "i", "n", "n", "h", "0", "2", "e", "f", "s">>, group |-> "l_aja_inmu02sr1"],
       [prefix |-> <<"l", "i", "n", "n", "h", "0", "8", "e", "f", "s">>, group |-> "l_aja_inmu08sr1"],
       [prefix |-> <<"l", "j", "n", "p", "a", "0", "5", "e", "f", "s">>, group |-> "l_aja_jnspa01"],
       [prefix |-> <<"l", "j", "n", "p", "a", "0", "1", "e", "f", "s">>, group |-> "l_aja_jnpe01"],
       [prefix |-> <<"l", "j", "p", "t", "k", "0", "1", "e", "f", "s">>, group |-> "l_aja_jptk01"],
       [prefix |-> <<"l", "k", "r", "h", "k", "0", "9", "e", "f", "s">>, group |-> "l_aja_kray01sr1"],
       [prefix |-> <<"l", "k", "r", "h", "k", "0", "2", "e", "f", "s">>, group |-> "l_aja_krse01sr2"],
       [prefix |-> <<"l", "s", "g", "s", "g", "0", "1", "e", "f", "s">>, group |-> "l_aja_ssgsg01"],
       [prefix |-> <<"l", "s", "g", "s", "g", "0", "2", "e", "f", "s">>, group |-> "l_aja_ssgsg02"],
       [prefix |-> <<"l", "t", "w", "t", "p", "0", "4", "e", "f", "s">>, group |-> "l_aja_ttwtp04"],
       [prefix |-> <<"l", "t", "w", "t", "p", "0", "1", "e", "f", "s">>, group |-> "l_aja_ttwtp01sr1"],
       [prefix |-> <<"l", "e", "m", "e", "a", "0", "1", "e", "f", "s">>, group |-> "l_emea_ukcm01"],
       [prefix |-> <<"l", "u", "k", "s", "g", "0", "1", "e", "f", "s">>, group |-> "l_emea_ukvg01"],
       [prefix |-> <<"l", "u", "s", "a", "z", "0", "7", "e", "f", "s">>, group |-> "l_amrs_usaz07"],
       [prefix |-> <<"l", "u", "s", "a", "z", "0", "6", "e", "f", "s">>, group |-> "l_amrs_usaz06"],
       [prefix |-> <<"l", "u", "s", "p", "a", "0", "1", "e", "f", "s">>, group |-> "l_amrs_uspa01"],
       [prefix |-> <<"l", "u", "s", "t", "x", "0", "2", "e", "f", "s">>, group |-> "l_amrs_ustx02"],
       [prefix |-> <<"l", "u", "s", "v", "a", "0", "1", "e", "f", "s">>, group |-> "l_amrs_usva01"] >>

StartsWith(s, prefix) == Len(s) >= Len(prefix) /\ SubSeq(s, 1, Len(prefix)) = prefix

\* a mutant of determine_group_from_pattern: no group when no pattern matches
determine_group_or_none(server_name) ==
    LET hits == { i \in 1..Len(PATTERN_TO_GROUP) :
                    StartsWith(server_name, PATTERN_TO_GROUP[i].prefix) }
    IN IF hits = {} THEN ""
       ELSE PATTERN_TO_GROUP[CHOOSE i \in hits : \A j \in hits : i <= j].group

determine_group_from_pattern(server_name) ==
    LET hits == { i \in 1..Len(PATTERN_TO_GROUP) :
                    StartsWith(server_name, PATTERN_TO_GROUP[i].prefix) }
    IN IF hits = {} THEN "Unknown Group"
       ELSE PATTERN_TO_GROUP[CHOOSE i \in hits : \A j \in hits : i <= j].group

(***************************************************************************)
(* parse_efsservers, the two drafts.  The result is ok with the mapping,   *)
(* or not ok when the loop raised.                                         *)
(***************************************************************************)
\* efs_servers.setdefault(server_name, set()).add(cell_name)
SetAdd(m, k, v) == DictMerge(m, k :> {v})

RECURSIVE Het_parse_efsservers(_, _)
Het_parse_efsservers(ls, acc) ==
    IF ls = <<>> THEN [ok |-> TRUE, data |-> acc]
    ELSE LET parts == Head(ls)
         IN IF Len(parts) < 3 THEN Het_parse_efsservers(Tail(ls), acc)
            ELSE Het_parse_efsservers(Tail(ls),
                     SetAdd(acc, Lower(Strip(parts[1])), Lower(Strip(parts[2]))))

RECURSIVE main1_parse_efsservers(_, _)
main1_parse_efsservers(ls, acc) ==
    IF ls = <<>> THEN [ok |-> TRUE, data |-> acc]
    ELSE LET parts == Head(ls)
         IN IF Len(parts) >= 3
            THEN IF Len(parts) # 3
                 THEN \* server, cell, _ = parts: ValueError
                      [ok |-> FALSE, data |-> acc]
                 ELSE main1_parse_efsservers(Tail(ls), SetAdd(acc, parts[1], parts[2]))
            ELSE main1_parse_efsservers(Tail(ls), acc)

parse_efsservers(v, ls) ==
    IF v = "Het" THEN Het_parse_efsservers(ls, EmptyDict)
    ELSE main1_parse_efsservers(get_efs_server_output(ls), EmptyDict)

(***************************************************************************)
(* compare_cells, the two drafts.  The report holds what the function      *)
(* prints: the two server lists (main1.py) and, per server of the          *)
(* registry, the marker of the block printed for it ("new", "mismatch",    *)
(* or "none" when nothing is printed) with the sets shown in it.           *)
(***************************************************************************)
NormSet(v, cells) == { normalize_cell(v, c) : c \in cells }

\* inventory_data.get(server, set())
DictGet(m, k) == IF k \in DOMAIN m THEN m[k] ELSE {}

Entry(g, mk, e, a, mi, ex) ==
    [group |-> g, marker |-> mk, expected |-> e, actual |-> a, missing |-> mi, extra |-> ex]

main1_compare_server(efs, inv, server) ==
    LET group          == determine_group_from_pattern(server)
        actual_cells   == NormSet("main1", DictGet(inv, server))
        expected_cells == NormSet("main1", efs[server])
    IN IF group = "" THEN Entry(group, "skipped", {}, {}, {}, {})
       ELSE IF actual_cells = {}
       THEN Entry(group, "new", expected_cells, {}, {}, {})
       ELSE IF expected_cells # actual_cells
       THEN Entry(group, "mismatch", expected_cells, actual_cells,
                  expected_cells \ actual_cells, actual_cells \ expected_cells)
       ELSE Entry(group, "none", expected_cells, actual_cells, {}, {})

main1_compare_cells(efs, inv) ==
    [missing_servers |-> (DOMAIN efs) \ (DOMAIN inv),
     extra_servers   |-> (DOMAIN inv) \ (DOMAIN efs),
     entries         |-> [server \in DOMAIN efs |-> main1_compare_server(efs, inv, server)]]

Het_compare_server(efs, inv, server) ==
    LET group    == determine_group_from_pattern(server)
        expected_cells_normalized == NormSet("Het", efs[server])
        actual_cells_normalized   == NormSet("Het", DictGet(inv, server))
    IN IF expected_cells_normalized # actual_cells_normalized
       THEN Entry(group, "mismatch", expected_cells_normalized, actual_cells_normalized,
                  expected_cells_normalized \ actual_cells_normalized,
                  actual_cells_normalized \ expected_cells_normalized)
       ELSE Entry(group, "none", expected_cells_normalized, actual_cells_normalized, {}, {})

\* Het.py prints no server lists
Het_compare_cells(efs, inv) ==
    [missing_servers |-> {},
     extra_servers   |-> {},
     entries         |-> [server \in DOMAIN efs |-> Het_compare_server(efs, inv, server)]]

compare_cells(v, efs, inv) ==
    IF v = "Het" THEN Het_compare_cells(efs, inv) ELSE main1_compare_cells(efs, inv)

(***************************************************************************)
(* SpecCmp: the registry listing is parsed and compared with a mapping     *)
(* parse_inventory can return.                                             *)
(***************************************************************************)
CellStd    == <<"c", ".", "m", "l", ".", "c", "o", "m">>              \* "c.ml.com"
CellUpper  == <<"C", " ", ".", "M", "L", ".", "C", "O", "M">>         \* "C .ML.COM"
CellLegacy == <<"c", ".", "m", "1", ".", "c", "o", "m">>              \* "c.m1.com"
CellX      == <<"x">>
RawCells   == {CellStd, CellUpper, CellLegacy, CellX}

CmpLines == { <<n, c, Dev>> : n \in {SrvA, SrvB}, c \in RawCells }

\* the mappings parse_inventory can return for hosts named "srva" and "SrvA":
\* server names as written, cells normalized
InventoryResults(v) ==
    UNION { [S -> SUBSET NormSet(v, RawCells)] : S \in SUBSET {SrvA, SrvAUpper} }

InitCmp ==
    /\ variant \in Variants
    /\ lines \in SeqsUpTo(CmpLines, MaxRecords)
    /\ inventory_data \in InventoryResults(variant)
    /\ cpc = "start" /\ efsservers_data = EmptyDict /\ report = <<>>
    /\ epc = "idle" /\ efs_servers = <<>> /\ ei = 0 /\ servers = <<>>
    /\ NormIdle /\ InvIdle /\ BalIdle

\* efsservers_data = parse_efsservers()
ParseEfsservers ==
    /\ cpc = "start"
    /\ LET r == parse_efsservers(variant, lines)
       IN IF r.ok
          THEN efsservers_data' = r.data /\ cpc' = "parsed"
          ELSE cpc' = "error" /\ UNCHANGED efsservers_data
    /\ UNCHANGED <<variant, report, normVars, invVars, inventory_data, efsVars, balVars>>

\* compare_cells(efsservers_data, inventory_data)
CompareCells ==
    /\ cpc = "parsed"
    /\ report' = compare_cells(variant, efsservers_data, inventory_data)
    /\ cpc' = "done"
    /\ UNCHANGED <<variant, efsservers_data, normVars, invVars, inventory_data, efsVars, balVars>>

NextCmp == ParseEfsservers \/ CompareCells

SpecCmp == InitCmp /\ [][NextCmp]_vars

\* the servers listed on both sides
InBoth == (DOMAIN efsservers_data) \cap (DOMAIN inventory_data)

Expected(s) == NormSet(variant, efsservers_data[s])
Actual(s)   == NormSet(variant, DictGet(inventory_data, s))

\* C4: for every server present in both mappings, the reported missing set
\* is expected minus actual and the reported extra set is actual minus
\* expected, over the normalized sets; missing and extra are disjoint and
\* together make up the symmetric difference (there is no correction pass:
\* corrected is empty).
C4_DiffPartition ==
    cpc = "done" =>
        \A s \in InBoth :
            LET e == report.entries[s]
            IN /\ e.missing = Expected(s) \ Actual(s)
               /\ e.extra = Actual(s) \ Expected(s)
               /\ e.missing \cap e.extra = {}
               /\ e.missing \cup e.extra =
                    (Expected(s) \cup Actual(s)) \ (Expected(s) \cap Actual(s))

\* a cell identifier with its whitespace removed and its letters lower-cased
FoldCell(c) == Lower(RemoveSpaces(c))

\* C6: when the expected and the actual cells of a server differ only in
\* letter case and whitespace, no missing and no extra cell is reported
\* for it.
C6_CaseAndSpaceInsensitive ==
    cpc = "done" =>
        \A s \in InBoth :
            { FoldCell(c) : c \in efsservers_data[s] } = { FoldCell(c) : c \in inventory_data[s] }
                => /\ report.entries[s].missing = {}
                   /\ report.entries[s].extra = {}
                   /\ report.entries[s].marker = "none"

\* C8: a server of expected that is absent from actual gets the "new server"
\* record, with an empty actual set and no missing/extra sets; a server that
\* is present in actual, even with an empty cell set, gets its missing and
\* extra sets and not the "new server" marker.
C8_NewServerIffAbsent ==
    cpc = "done" =>
        \A s \in DOMAIN efsservers_data :
            LET e == report.entries[s]
            IN IF s \notin DOMAIN inventory_data
               THEN e.marker = "new" /\ e.actual = {} /\ e.missing = {} /\ e.extra = {}
               ELSE /\ e.marker # "new"
                    /\ e.missing = Expected(s) \ Actual(s)
                    /\ e.extra = Actual(s) \ Expected(s)

\* C9: both sides of the server-set difference are reported: the servers of
\* expected that are not in actual as missing, the servers of actual that
\* are not in expected as extra.
C9_BothSidesReported ==
    cpc = "done" =>
        /\ report.missing_servers = (DOMAIN efsservers_data) \ (DOMAIN inventory_data)
        /\ report.extra_servers = (DOMAIN inventory_data) \ (DOMAIN efsservers_data)

\* a server name with its surrounding whitespace removed and lower-cased
FoldName(n) == Lower(Strip(n))

\* C10: a registry server and an inventory server whose names differ only in
\* letter case or surrounding whitespace are one server: the inventory's
\* cells are the ones compared with the registry's, and neither name is
\* reported as a missing or an extra server.
C10_ServerNamesFolded ==
    cpc = "done" =>
        \A i \in 1..Len(lines) : \A m \in DOMAIN inventory_data :
            FoldName(lines[i][1]) = FoldName(m) =>
                \E n \in DOMAIN efsservers_data :
                    /\ FoldName(n) = FoldName(m)
                    /\ Actual(m) \subseteq report.entries[n].actual
                    /\ n \notin report.missing_servers
                    /\ m \notin report.extra_servers
                    /\ report.entries[n].marker = "new" => Actual(m) = {}

(***************************************************************************)
(* SpecCls: parse_efsservers and compare_cells of main1.py over a registry *)
(* with a server the classifier knows and one it does not.                 *)
(***************************************************************************)
ClsName == <<"l", "a", "a", "u", "4", "2", "e", "f", "s", "1">>      \* "laau42efs1"

ClsCells == {CellStd, CellLegacy, CellX}

ClsLines == { <<n, c, Dev>> : n \in {ClsName, SrvA}, c \in ClsCells }

ClsInventoryResults ==
    UNION { [S -> SUBSET NormSet("main1", ClsCells)] : S \in SUBSET {ClsName, SrvA} }

InitCls ==
    /\ variant = "main1"
    /\ lines \in SeqsUpTo(ClsLines, MaxRecords)
    /\ inventory_data \in ClsInventoryResults
    /\ cpc = "start" /\ efsservers_data = EmptyDict /\ report = <<>>
    /\ epc = "idle" /\ efs_servers = <<>> /\ ei = 0 /\ servers = <<>>
    /\ NormIdle /\ InvIdle /\ BalIdle

SpecCls == InitCls /\ [][NextCmp]_vars

\* the servers of expected that no pattern classifies
Unclassified ==
    { s \in DOMAIN efsservers_data : \A i \in 1..Len(PATTERN_TO_GROUP) :
                                        ~StartsWith(s, PATTERN_TO_GROUP[i].prefix) }

\* C15: a server of expected that no pattern matches is still compared: it
\* carries the sentinel label, it is never skipped, its record is the "new
\* server" record or the missing/extra sets of its normalized cells, and
\* the record is the one a classified server with the same cells gets, the
\* label apart.
C15_UnknownStillCompared ==
    cpc = "done" =>
        \A s \in Unclassified :
            LET e == report.entries[s]
            IN /\ e.group = "Unknown Group"
               /\ e.marker # "skipped"
               /\ e.expected = Expected(s)
               /\ e.marker = "new" <=> Actual(s) = {}
               /\ e.marker = "mismatch" <=> (Actual(s) # {} /\ Expected(s) # Actual(s))
               /\ e.marker = "mismatch" =>
                      /\ e.missing = Expected(s) \ Actual(s)
                      /\ e.extra = Actual(s) \ Expected(s)
               /\ \A t \in (DOMAIN efsservers_data) \ Unclassified :
                      (Expected(t) = Expected(s) /\ Actual(t) = Actual(s))
                          => [report.entries[t] EXCEPT !.group = e.group] = e

\* C15's case: an unclassified server whose cells differ from the
\* inventory's has been compared, next to a classified server with the
\* same cells on both sides.
C15_Witness ==
    /\ cpc = "done"
    /\ \E s \in Unclassified :
         /\ report.entries[s].marker = "mismatch"
         /\ report.entries[s].missing # {}
         /\ \E t \in (DOMAIN efsservers_data) \ Unclassified :
               Expected(t) = Expected(s) /\ Actual(t) = Actual(s)

(***************************************************************************)
(* The control-group checks of validate_inventory_with_efs (main1.py       *)
(* steps 1 to 11; main2.py runs the same statements at module level).      *)
(* A Python dict keeps its keys in insertion order: efs_servers1 is held   *)
(* as the keys in that order with the mapping, data_center_pairs as the    *)
(* sequence of its items.                                                  *)
(***************************************************************************)
MaxBalLines == 2    \* lines of the registry listing read by the control-group checks

DevBlank == <<" ", "d", "e", "v">>      \* " dev", the field as `$1 ", " $3` prints it

\* d[k] = ... on the keys of a dict: a new key goes last
KeyInsert(keys, k) ==
    IF \E i \in 1..Len(keys) : keys[i] = k THEN keys ELSE Append(keys, k)

\* load_efs_unique_servers over the records get_efs_server_output returned
RECURSIVE load_efs_unique_servers(_, _)
load_efs_unique_servers(efs, acc) ==
    IF efs = <<>> THEN acc
    ELSE LET parts == Head(efs)
         IN IF Len(parts) < 3
            THEN load_efs_unique_servers(Tail(efs), acc)
            ELSE IF Len(parts) # 3
            THEN [acc EXCEPT !.ok = FALSE]      \* ValueError: too many values to unpack
            ELSE load_efs_unique_servers(Tail(efs),
                     [ok   |-> TRUE,
                      keys |-> KeyInsert(acc.keys, parts[1]),
                      map  |-> StoreServer(acc.map, parts[1], <<parts[2], parts[3]>>)])

EmptyServers == [ok |-> TRUE, keys |-> <<>>, map |-> EmptyDict]

\* efs_servers1.items()
ItemsOf(d) == [i \in 1..Len(d.keys) |-> <<d.keys[i], d.map[d.keys[i]][1], d.map[d.keys[i]][2]>>]

RoleMismatch(server_name_1, host_type, group) ==
    [server |-> server_name_1, host_type |-> host_type, group |-> group]

\* a mutant of role_mismatches: the prod role group is not looked at
role_mismatches_dev_only(server_name_1, host_type, dev, prod) ==
    IF server_name_1 \in dev /\ host_type # Dev
    THEN { RoleMismatch(server_name_1, host_type, "servertype_dev") }
    ELSE {}

\* step 5, the body of the loop: the entries one record adds
role_mismatches(server_name_1, host_type, dev, prod) ==
    IF server_name_1 \in dev /\ host_type # Dev
    THEN { RoleMismatch(server_name_1, host_type, "servertype_dev") }
    ELSE IF server_name_1 \in prod /\ host_type # Prod
    THEN { RoleMismatch(server_name_1, host_type, "servertype_prod") }
    ELSE {}

\* step 5: for server_nm in efs_servers
RECURSIVE role_check(_, _, _, _)
role_check(efs, dev, prod, acc) ==
    IF efs = <<>> THEN acc
    ELSE LET server_nm == Head(efs)
         IN IF Len(server_nm) < 3
            THEN role_check(Tail(efs), dev, prod, acc)
            ELSE IF Len(server_nm) # 3
            THEN [acc EXCEPT !.ok = FALSE]      \* ValueError: too many values to unpack
            ELSE role_check(Tail(efs), dev, prod,
                     [acc EXCEPT !.set = @ \cup role_mismatches(server_nm[1], server_nm[3], dev, prod)])

ControlGroups == {"controlgroup_a", "controlgroup_b"}

\* {'controlgroup_a': {'dev': [], 'prod': []}, 'controlgroup_b': {'dev': [], 'prod': []}}
EmptyBuckets == [cg \in ControlGroups |-> [r \in {Dev, Prod} |-> <<>>]]

\* a mutant of control_group_of: control group B is looked at first
control_group_b_first(server_name1, a1, b1) ==
    IF server_name1 \in b1 THEN "controlgroup_b"
    ELSE IF server_name1 \in a1 THEN "controlgroup_a"
    ELSE ""

\* step 9, "Determine control group": "" stands for `continue`
control_group_of(server_name1, a1, b1) ==
    IF server_name1 \in a1 THEN "controlgroup_a"
    ELSE IF server_name1 \in b1 THEN "controlgroup_b"
    ELSE ""

\* step 9, "Track server pairs by data center"
TrackPair(pairs, cell_name, control_group, host_type, server_name1) ==
    LET d == IF \E i \in 1..Len(pairs) : pairs[i].cell = cell_name
             THEN pairs
             ELSE Append(pairs, [cell |-> cell_name, groups |-> EmptyBuckets])
        i == CHOOSE j \in 1..Len(d) : d[j].cell = cell_name
    IN [d EXCEPT ![i].groups[control_group][host_type] = Append(@, server_name1)]

\* step 9, the body of the loop
TallyServer(st, server_name1, cell_name, host_type, a1, b1) ==
    LET control_group == control_group_of(server_name1, a1, b1)
    IN IF control_group = "" THEN st
       ELSE IF host_type \notin {Dev, Prod}
       THEN [st EXCEPT !.ok = FALSE]            \* KeyError: group_counts[control_group][host_type]
       ELSE [ok                |-> TRUE,
             group_counts      |-> [st.group_counts EXCEPT ![control_group][host_type] =
                                        Append(@, <<server_name1, cell_name>>)],
             assigned_servers  |-> st.assigned_servers \cup {server_name1},
             data_center_pairs |-> TrackPair(st.data_center_pairs, cell_name, control_group,
                                             host_type, server_name1)]

\* steps 6 to 8
EmptyTally ==
    [ok |-> TRUE, group_counts |-> EmptyBuckets, assigned_servers |-> {},
     data_center_pairs |-> <<>>]

\* step 9: for server_name1, (cell_name, host_type) in efs_servers1.items()
RECURSIVE tally(_, _, _, _)
tally(items, a1, b1, st) ==
    IF items = <<>> \/ ~st.ok THEN st
    ELSE tally(Tail(items), a1, b1,
               TallyServer(st, Head(items)[1], Head(items)[2], Head(items)[3], a1, b1))

\* one string of the list mismatches, by the values formatted into it
MismatchLine(kind, cell_name, dev, prod, expected, assigned, names) ==
    [kind |-> kind, cell |-> cell_name, dev |-> dev, prod |-> prod,
     expected |-> expected, assigned |-> assigned, servers |-> names]

\* a mutant of unpaired: control group B is not looked at
unpaired_in_a(groups) ==
    Len(groups["controlgroup_a"][Dev]) # Len(groups["controlgroup_a"][Prod])

\* step 10, the condition
unpaired(groups) ==
    \/ Len(groups["controlgroup_a"][Dev]) # Len(groups["controlgroup_a"][Prod])
    \/ Len(groups["controlgroup_b"][Dev]) # Len(groups["controlgroup_b"][Prod])

\* step 10: for cell_name, groups in data_center_pairs.items()
RECURSIVE pairing_check(_, _)
pairing_check(pairs, acc) ==
    IF pairs = <<>> THEN acc
    ELSE LET cell_name == Head(pairs).cell
             groups    == Head(pairs).groups
         IN pairing_check(Tail(pairs),
              IF unpaired(groups)
              THEN acc \o << MismatchLine("data center", cell_name, <<>>, <<>>, 0, 0, <<>>),
                             MismatchLine("controlgroup_a", <<>>, groups["controlgroup_a"][Dev],
                                          groups["controlgroup_a"][Prod], 0, 0, <<>>),
                             MismatchLine("controlgroup_b", <<>>, groups["controlgroup_b"][Dev],
                                          groups["controlgroup_b"][Prod], 0, 0, <<>>) >>
              ELSE acc)

\* a mutant of unassigned_servers: every registry server is listed
every_server(keys, assigned) == keys

\* step 11: [server for server in efs_servers1.keys() if server not in assigned_servers]
unassigned_servers(keys, assigned) == SelectSeq(keys, LAMBDA server : server \notin assigned)

\* step 11
total_count(d, assigned, acc) ==
    LET total_efs_count      == Len(d.keys)
        total_assigned_count == Cardinality(assigned)
    IN IF total_assigned_count # total_efs_count
       THEN acc \o << MismatchLine("total", <<>>, <<>>, <<>>, total_efs_count,
                                   total_assigned_count, <<>>),
                      MismatchLine("unassigned", <<>>, <<>>, <<>>, 0, 0,
                                   unassigned_servers(d.keys, assigned)) >>
       ELSE acc

(***************************************************************************)
(* SpecBal: the control-group checks, one step per numbered step of        *)
(* validate_inventory_with_efs.                                            *)
(***************************************************************************)
BalNames == {SrvA, SrvB}

BalLines ==
    { <<n, c, r>> : n \in BalNames, c \in {Cell1, Cell2}, r \in {Dev, Prod} }
    \cup { <<SrvB, Cell1, DevBlank>>, <<SrvA, Cell1>>, <<SrvA, Cell2, Dev, <<"x">> >> }

\* the hosts of the four groups: the control groups vary with the role
\* groups fixed, or the role groups vary with the control groups fixed
Memberships ==
    { <<a, b, {SrvA}, {SrvB}>> : a \in SUBSET BalNames, b \in SUBSET BalNames }
    \cup { <<{SrvA}, {SrvB}, d, p>> : d \in SUBSET BalNames, p \in SUBSET BalNames }

InitBal ==
    /\ variant = "main1"
    /\ lines \in SeqsUpTo(BalLines, MaxBalLines)
    /\ \E m \in Memberships :
         /\ controlgroup_a1 = m[1] /\ controlgroup_b1 = m[2]
         /\ servertype_dev = m[3] /\ servertype_prod = m[4]
    /\ bpc = "start" /\ efs_servers1 = <<>> /\ mismatches_servergroup = {}
    /\ group_counts = <<>> /\ data_center_pairs = <<>> /\ assigned_servers = {}
    /\ mismatches = <<>>
    /\ epc = "idle" /\ efs_servers = <<>> /\ ei = 0 /\ servers = <<>>
    /\ NormIdle /\ InvIdle /\ inventory_data = EmptyDict /\ CmpIdle

balInputs == <<controlgroup_a1, controlgroup_b1, servertype_dev, servertype_prod>>

\* step 1: efs_servers1 = load_efs_unique_servers(); efs_servers = load_efs_servers()
LoadEfs ==
    /\ bpc = "start"
    /\ LET r == load_efs_unique_servers(get_efs_server_output(lines), EmptyServers)
       IN IF r.ok
          THEN /\ efs_servers1' = [keys |-> r.keys, map |-> r.map]
               /\ efs_servers' = get_efs_server_output(lines)
               /\ bpc' = "loaded"
          ELSE /\ bpc' = "error"
               /\ UNCHANGED <<efs_servers1, efs_servers>>
    /\ UNCHANGED <<variant, lines, epc, ei, servers, balInputs, mismatches_servergroup,
                   group_counts, data_center_pairs, assigned_servers, mismatches,
                   normVars, invVars, inventory_data, cmpVars>>

\* step 5
RoleCheck ==
    /\ bpc = "loaded"
    /\ LET r == role_check(efs_servers, servertype_dev, servertype_prod, [ok |-> TRUE, set |-> {}])
       IN IF r.ok
          THEN mismatches_servergroup' = r.set /\ bpc' = "checked"
          ELSE bpc' = "error" /\ UNCHANGED mismatches_servergroup
    /\ UNCHANGED <<variant, balInputs, efs_servers1, group_counts, data_center_pairs,
                   assigned_servers, mismatches,
                   normVars, invVars, inventory_data, efsVars, cmpVars>>

\* steps 6 to 9
TallyLoop ==
    /\ bpc = "checked"
    /\ LET st == tally(ItemsOf(efs_servers1), controlgroup_a1, controlgroup_b1, EmptyTally)
       IN IF st.ok
          THEN /\ group_counts' = st.group_counts
               /\ data_center_pairs' = st.data_center_pairs
               /\ assigned_servers' = st.assigned_servers
               /\ bpc' = "tallied"
          ELSE /\ bpc' = "error"
               /\ UNCHANGED <<group_counts, data_center_pairs, assigned_servers>>
    /\ UNCHANGED <<variant, balInputs, efs_servers1, mismatches_servergroup, mismatches,
                   normVars, invVars, inventory_data, efsVars, cmpVars>>

\* step 10
PairingCheck ==
    /\ bpc = "tallied"
    /\ mismatches' = pairing_check(data_center_pairs, <<>>)
    /\ bpc' = "paired"
    /\ UNCHANGED <<variant, balInputs, efs_servers1, mismatches_servergroup, group_counts,
                   data_center_pairs, assigned_servers,
                   normVars, invVars, inventory_data, efsVars, cmpVars>>

\* step 11
TotalCount ==
    /\ bpc = "paired"
    /\ mismatches' = total_count(efs_servers1, assigned_servers, mismatches)
    /\ bpc' = "done"
    /\ UNCHANGED <<variant, balInputs, efs_servers1, mismatches_servergroup, group_counts,
                   data_center_pairs, assigned_servers,
                   normVars, invVars, inventory_data, efsVars, cmpVars>>

NextBal == LoadEfs \/ RoleCheck \/ TallyLoop \/ PairingCheck \/ TotalCount

SpecBal == InitBal /\ [][NextBal]_vars

\* the registry servers: the names of the three-field records
UniqueServers == { lines[i][1] : i \in { j \in 1..Len(lines) : Len(lines[j]) = 3 } }

\* the listing without the records of server s
WithoutServer(ls, s) == SelectSeq(ls, LAMBDA parts : Len(parts) < 3 \/ parts[1] # s)

\* steps 1, 9 and 10 over a listing: the result of the pairing check
PairingOf(ls, a1, b1) ==
    LET r  == load_efs_unique_servers(get_efs_server_output(ls), EmptyServers)
        st == tally(ItemsOf(r), a1, b1, EmptyTally)
    IN [ok |-> r.ok /\ st.ok, mismatches |-> pairing_check(st.data_center_pairs, <<>>)]

\* the sites an entry of the given list flags, one element per entry
FlagsIn(ms) == { i \in 1..Len(ms) : ms[i].kind = "data center" }

\* the assigned servers of site c in control group cg ("a": listed in A;
\* "b": listed in B and not in A) with role r
AssignedAt(c, cg, r) ==
    { s \in UniqueServers :
        /\ IF cg = "a" THEN s \in controlgroup_a1
                       ELSE s \in controlgroup_b1 \ controlgroup_a1
        /\ efs_servers1.map[s] = <<c, r>> }

Balanced(c) ==
    /\ Cardinality(AssignedAt(c, "a", Dev)) = Cardinality(AssignedAt(c, "a", Prod))
    /\ Cardinality(AssignedAt(c, "b", Dev)) = Cardinality(AssignedAt(c, "b", Prod))

\* C11: a site is flagged, once, exactly when its assigned servers count
\* differently in dev and in prod in control group A or in control group B;
\* and when no site is flagged, the same input without one assigned prod
\* server gets exactly one imbalance entry, which names that server's site.
C11_ImbalanceIffCountsDiffer ==
    bpc = "done" =>
        /\ \A c \in {Cell1, Cell2} :
             /\ (\E i \in FlagsIn(mismatches) : mismatches[i].cell = c) <=> ~Balanced(c)
             /\ Cardinality({ i \in FlagsIn(mismatches) : mismatches[i].cell = c }) <= 1
        /\ FlagsIn(mismatches) = {} =>
             \A s \in assigned_servers :
                 efs_servers1.map[s][2] = Prod =>
                     LET less == PairingOf(WithoutServer(lines, s), controlgroup_a1, controlgroup_b1)
                     IN /\ less.ok
                        /\ Cardinality(FlagsIn(less.mismatches)) = 1
                        /\ \A i \in FlagsIn(less.mismatches) :
                             less.mismatches[i].cell = efs_servers1.map[s][1]

\* C11's case: the validation of a balanced input with a paired prod server
\* has finished.
C11_Witness ==
    /\ bpc = "done"
    /\ FlagsIn(mismatches) = {}
    /\ \E s \in assigned_servers : efs_servers1.map[s][2] = Prod

\* the registry servers listed in neither control group
InNeither == UniqueServers \ (controlgroup_a1 \cup controlgroup_b1)

\* C12: a total-count mismatch is reported exactly when some registry server
\* is in neither control group; it gives the number of registry servers and
\* the number of assigned ones, and the unassigned list that follows holds
\* exactly the servers in neither control group, each once.
C12_TotalCountMismatch ==
    bpc = "done" =>
        LET totals == { i \in 1..Len(mismatches) : mismatches[i].kind = "total" }
            lists  == { i \in 1..Len(mismatches) : mismatches[i].kind = "unassigned" }
        IN /\ totals # {} <=> InNeither # {}
           /\ lists # {} <=> InNeither # {}
           /\ Cardinality(totals) <= 1 /\ Cardinality(lists) <= 1
           /\ \A i \in totals :
                /\ mismatches[i].expected = Cardinality(UniqueServers)
                /\ mismatches[i].assigned = Cardinality(UniqueServers \ InNeither)
           /\ \A i \in lists :
                LET l == mismatches[i].servers
                IN /\ { l[k] : k \in 1..Len(l) } = InNeither
                   /\ Len(l) = Cardinality(InNeither)

\* C12's case: some registry servers are assigned and some are not, and the
\* unassigned ones have been listed.
C12_Witness ==
    /\ bpc = "done"
    /\ assigned_servers # {}
    /\ \E i \in 1..Len(mismatches) :
         mismatches[i].kind = "unassigned" /\ mismatches[i].servers # <<>>

\* a record of server s whose role is not the one of a role group listing s
WrongRoleRecord(s) ==
    \E i \in 1..Len(lines) :
        /\ Len(lines[i]) = 3 /\ lines[i][1] = s
        /\ \/ s \in servertype_dev /\ lines[i][3] # Dev
           \/ s \in servertype_prod /\ lines[i][3] # Prod

RoleChecked == bpc \in {"checked", "tallied", "paired", "done"}

\* C13: the role check emits an entry for a server exactly when some record
\* of the server has a role other than dev while the server is in the dev
\* role group, or a role other than prod while it is in the prod role
\* group; a server in both role groups is covered, and a server whose role
\* matches every role group listing it gets no entry.
C13_RoleMismatchIffWrongRole ==
    RoleChecked =>
        /\ \A s \in BalNames :
             (\E e \in mismatches_servergroup : e.server = s) <=> WrongRoleRecord(s)
        /\ \A e \in mismatches_servergroup :
             \E i \in 1..Len(lines) :
                 /\ Len(lines[i]) = 3 /\ lines[i][1] = e.server /\ lines[i][3] = e.host_type
                 /\ IF e.group = "servertype_dev"
                    THEN e.server \in servertype_dev /\ e.host_type # Dev
                    ELSE e.server \in servertype_prod /\ e.host_type # Prod

\* C13's case: the role check has run over a server listed in both role
\* groups, which got an entry, and a server listed in a role group with
\* the matching role, which got none.
C13_Witness ==
    /\ RoleChecked
    /\ \E s \in servertype_dev \cap servertype_prod :
         \E e \in mismatches_servergroup : e.server = s
    /\ \E t \in UniqueServers \cap (servertype_dev \cup servertype_prod) :
         \A e \in mismatches_servergroup : e.server # t

\* C14: no step of the control-group checks raises, whatever the records
\* hold: a record of more than three fields and a role that is neither
\* 'dev' nor 'prod' included.
C14_NeverAborts == bpc # "error"

\* the places of the per-site buckets that hold server s
SlotsOf(s) ==
    { <<i, cg, r, k>> \in (1..Len(data_center_pairs)) \X ControlGroups \X {Dev, Prod}
                             \X (1..Len(efs_servers1.keys)) :
        /\ k <= Len(data_center_pairs[i].groups[cg][r])
        /\ data_center_pairs[i].groups[cg][r][k] = s }

Tallied == bpc \in {"tallied", "paired", "done"}

\* C17: after the tally loop every registry server is in at most one bucket:
\* a server listed in control group A (also one listed in both) is in a
\* bucket of A, a server listed in B only is in a bucket of B, each in the
\* bucket of its retained site and role; a server in neither is in no
\* bucket; and the bucket sizes add up to the number of assigned servers.
C17_OneBucketPerServer ==
    Tallied =>
        /\ \A s \in UniqueServers :
             /\ Cardinality(SlotsOf(s)) <= 1
             /\ s \in controlgroup_a1 =>
                  \E x \in SlotsOf(s) :
                      /\ x[2] = "controlgroup_a"
                      /\ data_center_pairs[x[1]].cell = efs_servers1.map[s][1]
                      /\ x[3] = efs_servers1.map[s][2]
             /\ s \in controlgroup_b1 \ controlgroup_a1 =>
                  \E x \in SlotsOf(s) :
                      /\ x[2] = "controlgroup_b"
                      /\ data_center_pairs[x[1]].cell = efs_servers1.map[s][1]
                      /\ x[3] = efs_servers1.map[s][2]
             /\ s \in InNeither => SlotsOf(s) = {}
        /\ assigned_servers = UniqueServers \ InNeither
        /\ Cardinality(UNION { SlotsOf(s) : s \in UniqueServers })
               = Cardinality(assigned_servers)
        /\ \A i \in 1..Len(data_center_pairs) : \A cg \in ControlGroups : \A r \in {Dev, Prod} :
               \A k \in 1..Len(data_center_pairs[i].groups[cg][r]) :
                   data_center_pairs[i].groups[cg][r][k] \in UniqueServers

\* C17's case: the tally loop has run over a server listed in both control
\* groups and a server listed in neither.
C17_Witness ==
    /\ Tallied
    /\ UniqueServers \cap controlgroup_a1 \cap controlgroup_b1 # {}
    /\ InNeither # {}

(***************************************************************************)
(* SpecRun: the two report-producing paths, run in either order.           *)
(* In main1.py both are parts of validate_inventory_with_efs and every     *)
(* collection is a local of it.  In main2.py the control-group checks are  *)
(* module-level statements that bind the globals mismatches_servergroup    *)
(* and mismatches, and compare_cells prints these globals after its own    *)
(* report.                                                                 *)
(***************************************************************************)
Drafts == {"main1", "main2"}

\* steps 1 to 11 over a listing and the hosts of the four groups
validate_groups(ls, a1, b1, dev, prod) ==
    LET r  == load_efs_unique_servers(get_efs_server_output(ls), EmptyServers)
        rc == role_check(get_efs_server_output(ls), dev, prod, [ok |-> TRUE, set |-> {}])
        st == tally(ItemsOf(r), a1, b1, EmptyTally)
    IN [ok                     |-> r.ok /\ rc.ok /\ st.ok,
        efs_servers1           |-> [keys |-> r.keys, map |-> r.map],
        efs_servers            |-> get_efs_server_output(ls),
        mismatches_servergroup |-> rc.set,
        group_counts           |-> st.group_counts,
        data_center_pairs      |-> st.data_center_pairs,
        assigned_servers       |-> st.assigned_servers,
        mismatches             |-> total_count(r, st.assigned_servers,
                                               pairing_check(st.data_center_pairs, <<>>))]

\* what compare_cells prints: its own report and, in main2.py, the two
\* sections it reads from the globals
compare_output(v, efs, inv, servergroup, control) ==
    [cells    |-> compare_cells(v, efs, inv),
     sections |-> IF v = "main2" THEN <<servergroup, control>> ELSE <<>>]

RunLines == { <<n, c, r>> : n \in BalNames, c \in {Cell1, Cell2}, r \in {Dev, Prod} }

RunMemberships == { <<a, {SrvB}, {SrvA}, {SrvB}>> : a \in SUBSET BalNames }

RunInventoryResults == UNION { [S -> SUBSET {Cell1}] : S \in SUBSET {SrvA} }

InitRun ==
    /\ variant \in Drafts
    /\ lines \in SeqsUpTo(RunLines, MaxRecords)
    /\ inventory_data \in RunInventoryResults
    /\ \E m \in RunMemberships :
         /\ controlgroup_a1 = m[1] /\ controlgroup_b1 = m[2]
         /\ servertype_dev = m[3] /\ servertype_prod = m[4]
    /\ bpc = "start" /\ efs_servers1 = <<>> /\ mismatches_servergroup = {}
    /\ group_counts = <<>> /\ data_center_pairs = <<>> /\ assigned_servers = {}
    /\ mismatches = <<>>
    /\ cpc = "start" /\ efsservers_data = EmptyDict /\ report = <<>>
    /\ epc = "idle" /\ efs_servers = <<>> /\ ei = 0 /\ servers = <<>>
    /\ NormIdle /\ InvIdle

\* main1.py steps 1 to 13; main2.py lines 46 to 135
RunBalancePath ==
    /\ bpc = "start"
    /\ LET r == validate_groups(lines, controlgroup_a1, controlgroup_b1,
                                servertype_dev, servertype_prod)
       IN IF r.ok
          THEN /\ efs_servers1' = r.efs_servers1
               /\ efs_servers' = r.efs_servers
               /\ mismatches_servergroup' = r.mismatches_servergroup
               /\ group_counts' = r.group_counts
               /\ data_center_pairs' = r.data_center_pairs
               /\ assigned_servers' = r.assigned_servers
               /\ mismatches' = r.mismatches
               /\ bpc' = "done"
          ELSE /\ bpc' = "error"
               /\ UNCHANGED <<efs_servers1, efs_servers, mismatches_servergroup, group_counts,
                              data_center_pairs, assigned_servers, mismatches>>
    /\ UNCHANGED <<variant, lines, epc, ei, servers, balInputs,
                   normVars, invVars, inventory_data, cmpVars>>

\* main1.py step 14; main2.py validate_inventory_with_efs
RunComparePath ==
    /\ cpc = "start"
    /\ LET r == parse_efsservers(variant, lines)
       IN IF ~r.ok
          THEN cpc' = "error" /\ UNCHANGED <<efsservers_data, report>>
          ELSE IF variant = "main2" /\ bpc # "done"
          THEN \* NameError: name 'mismatches_servergroup' is not defined
               /\ efsservers_data' = r.data
               /\ cpc' = "error"
               /\ UNCHANGED report
          ELSE /\ efsservers_data' = r.data
               /\ report' = compare_output(variant, r.data, inventory_data,
                                           mismatches_servergroup, mismatches)
               /\ cpc' = "done"
    /\ UNCHANGED <<variant, normVars, invVars, inventory_data, efsVars, balVars>>

NextRun == RunBalancePath \/ RunComparePath

SpecRun == InitRun /\ [][NextRun]_vars

\* C16: the two paths are independent: neither fails because of the order,
\* each report is the one its path computes from the registry records and
\* the inventory alone, whichever path ran first, and no step changes the
\* inputs.
C16_PathsIndependent ==
    /\ [](/\ bpc # "error" /\ cpc # "error"
          /\ cpc = "done" =>
               report.cells = compare_cells(variant, parse_efsservers(variant, lines).data,
                                            inventory_data)
          /\ bpc = "done" =>
               /\ mismatches_servergroup =
                    validate_groups(lines, controlgroup_a1, controlgroup_b1,
                                    servertype_dev, servertype_prod).mismatches_servergroup
               /\ mismatches =
                    validate_groups(lines, controlgroup_a1, controlgroup_b1,
                                    servertype_dev, servertype_prod).mismatches)
    /\ [][UNCHANGED <<lines, inventory_data, balInputs>>]_vars

====
